---------------------------- MODULE Spec2Model ----------------------------
(***************************************************************************)
(* Model of src/agents/subagent-announce-queue.ts: the per-key announce    *)
(* queue (registry entry, enqueue with overflow handling, and the          *)
(* self-rescheduling asynchronous drain loop).                             *)
(*                                                                         *)
(* One key is modelled: distinct keys share nothing but the registry map.  *)
(* The JavaScript runtime is single-threaded, so every action below is one *)
(* run-to-completion segment: a whole enqueueAnnounce call, or the part of *)
(* the drain closure between two of its awaits.                            *)
(***************************************************************************)
EXTENDS Integers, Sequences, FiniteSets

\* ------------------------------------------------------------------ bounds
\* Number of enqueueAnnounce calls explored.
MaxEnq == 3

\* ------------------------------------------------------- program constants
DefaultDebounceMs == 1000
DefaultCap == 20

\* ------------------------------------------------------------------ inputs
\* An optional numeric setting: has = FALSE is `undefined`; half = TRUE adds
\* 0.5 to val (a non-integer number).
Absent == [has |-> FALSE, val |-> 0, half |-> FALSE]
Num(n) == [has |-> TRUE, val |-> n, half |-> FALSE]
NumHalf(n) == [has |-> TRUE, val |-> n, half |-> TRUE]

Modes == {"individual", "collect"}
DropPolicies == {"new", "old", "summarize"}
PolicyInputs == DropPolicies \cup {"undefined"}
DebounceInputs == {Absent, Num(-1)}
CapInputs == {Absent, NumHalf(0), Num(1)}
\* Results of normalizeDeliveryContext / deliveryContextKey for an item:
\* no origin, an origin without a derivable key, an origin with key k1 or k2.
OriginInputs ==
    { [origin |-> FALSE, originKey |-> ""],
      [origin |-> TRUE, originKey |-> ""],
      [origin |-> TRUE, originKey |-> "k1"],
      [origin |-> TRUE, originKey |-> "k2"] }
SettingsInputs ==
    [mode : Modes, debounceMs : DebounceInputs, cap : CapInputs, dropPolicy : PolicyInputs]
\* Callers that always pass debounceMs, and may raise it from 0 to the
\* default value between two calls; they leave cap and dropPolicy alone.
RetimedDebounceInputs == {Num(-1), Num(DefaultDebounceMs)}
RetimedSettingsInputs ==
    [mode : Modes, debounceMs : RetimedDebounceInputs, cap : {Absent},
     dropPolicy : {"undefined"}]
\* Callers of a queue of one item without debounce that evict on overflow.
EvictingSettingsInputs ==
    [mode : Modes, debounceMs : {Num(-1)}, cap : {Num(1)},
     dropPolicy : {"summarize", "old"}]

\* Values of Date.now() - queue.lastEnqueuedAt that the code can tell apart.
TimePoints == {0, DefaultDebounceMs}

Max(a, b) == IF a >= b THEN a ELSE b

\* ------------------------------------------------------------------- state
VARIABLES
    registered,   \* ANNOUNCE_QUEUES.has(key)
    queue,        \* the AnnounceQueueState object last stored under the key
    elapsed,      \* Date.now() - queue.lastEnqueuedAt
    loops,        \* the live drain closures of the key, each at an await
    sends,        \* number of queue.send calls since the object was created
    last,         \* the queue.send call in flight: its argument and what held
                  \* when it began (NoSend once it has settled)
    ret,          \* return value of the latest enqueueAnnounce call
    enqCount,     \* number of enqueueAnnounce calls so far
    debounceFixed, \* queue.debounceMs has had one value since the object was created
    split,        \* the drain loop took the cross-channel branch since creation
    uniform,      \* observation for the single-channel collect case, see Enqueue
    lifeStart,    \* enqCount when the current object was created
    restarts,     \* parity of the number of times a finally block has
                  \* re-scheduled the drain (line 204)
    gone,         \* highest sessionKey among the items that have left
                  \* queue.items so far, by eviction or for a send
    lastMode,     \* settings.mode of the latest enqueueAnnounce call
    createdWith,  \* <<settings>> right after the call that created the
                  \* object, <<>> in every other state
    failed        \* the latest queue.send call of the object has rejected

vars == <<registered, queue, elapsed, loops, sends, last, ret, enqCount,
          debounceFixed, split, uniform, lifeStart, restarts, gone, lastMode,
          createdWith, failed>>

\* ----------------------------------------------------------------- prompts
Body(id) == [type |-> "body", body |-> id, dropped |-> 0, lines |-> <<>>, blocks |-> <<>>]
NoPrompt == [type |-> "none", body |-> 0, dropped |-> 0, lines |-> <<>>, blocks |-> <<>>]

\* buildQueueSummaryLine: the cleaned, elided text of the item, which is a
\* function of the item's own text only.
BuildQueueSummaryLine(item) == item.prompt.body

\* Faulty variant: droppedCount and summaryLines are not reset.
BuildSummaryPrompt_NoReset(q) ==
    IF q.dropPolicy # "summarize" \/ q.droppedCount <= 0
    THEN [prompt |-> NoPrompt, queue |-> q]
    ELSE [prompt |-> [type |-> "summary", body |-> 0, dropped |-> q.droppedCount,
                      lines |-> q.summaryLines, blocks |-> <<>>],
          queue |-> q]

\* buildSummaryPrompt: returns the prompt (NoPrompt for undefined) and the
\* queue after its side effect.
BuildSummaryPrompt(q) ==
    IF q.dropPolicy # "summarize" \/ q.droppedCount <= 0
    THEN [prompt |-> NoPrompt, queue |-> q]
    ELSE [prompt |-> [type |-> "summary", body |-> 0, dropped |-> q.droppedCount,
                      lines |-> q.summaryLines, blocks |-> <<>>],
          queue |-> [q EXCEPT !.droppedCount = 0, !.summaryLines = <<>>]]

\* Faulty variant: the blocks are numbered from 0.
BuildCollectPrompt_FromZero(items, summary) ==
    [type |-> "collect", body |-> 0,
     dropped |-> IF summary.type = "summary" THEN summary.dropped ELSE 0,
     lines |-> IF summary.type = "summary" THEN summary.lines ELSE <<>>,
     blocks |-> [i \in 1..Len(items) |-> [num |-> i - 1, body |-> items[i].prompt.body]]]

\* buildCollectPrompt: header, the summary when there is one, then one
\* numbered block per item.
BuildCollectPrompt(items, summary) ==
    [type |-> "collect", body |-> 0,
     dropped |-> IF summary.type = "summary" THEN summary.dropped ELSE 0,
     lines |-> IF summary.type = "summary" THEN summary.lines ELSE <<>>,
     blocks |-> [i \in 1..Len(items) |-> [num |-> i, body |-> items[i].prompt.body]]]

\* Faulty variant: the mix of items with and without an origin goes unnoticed.
HasCrossChannelItems_KeysOnly(items) ==
    LET idx == 1..Len(items)
        keys == {items[i].originKey : i \in {j \in idx : items[j].origin}}
    IN  IF \E i \in idx : items[i].origin /\ items[i].originKey = "" THEN TRUE
        ELSE Cardinality(keys) > 1

HasCrossChannelItems(items) ==
    LET idx == 1..Len(items)
        keys == {items[i].originKey : i \in {j \in idx : items[j].origin}}
        hasUnkeyed == \E i \in idx : ~items[i].origin
    IN  IF \E i \in idx : items[i].origin /\ items[i].originKey = "" THEN TRUE
        ELSE IF keys = {} THEN FALSE
        ELSE IF hasUnkeyed THEN TRUE
        ELSE Cardinality(keys) > 1

\* ---------------------------------------------------------------- registry
CapValid(c) == c.has /\ (c.val > 0 \/ (c.val = 0 /\ c.half))
FloorCap(c) == c.val

Created(settings, send) ==
    [items |-> <<>>, draining |-> FALSE, mode |-> settings.mode,
     debounceMs |-> IF settings.debounceMs.has THEN Max(0, settings.debounceMs.val)
                    ELSE DefaultDebounceMs,
     cap |-> IF CapValid(settings.cap) THEN FloorCap(settings.cap) ELSE DefaultCap,
     dropPolicy |-> IF settings.dropPolicy = "undefined" THEN "summarize"
                    ELSE settings.dropPolicy,
     droppedCount |-> 0, summaryLines |-> <<>>, send |-> send]

\* Faulty variant: the callback of the existing object is kept.
Merged_KeepSend(existing, settings, send) ==
    [existing EXCEPT
        !.mode = settings.mode,
        !.debounceMs = IF settings.debounceMs.has THEN Max(0, settings.debounceMs.val)
                       ELSE existing.debounceMs,
        !.cap = IF CapValid(settings.cap) THEN FloorCap(settings.cap) ELSE existing.cap,
        !.dropPolicy = IF settings.dropPolicy = "undefined" THEN existing.dropPolicy
                       ELSE settings.dropPolicy]

Merged(existing, settings, send) ==
    [existing EXCEPT
        !.mode = settings.mode,
        !.debounceMs = IF settings.debounceMs.has THEN Max(0, settings.debounceMs.val)
                       ELSE existing.debounceMs,
        !.cap = IF CapValid(settings.cap) THEN FloorCap(settings.cap) ELSE existing.cap,
        !.dropPolicy = IF settings.dropPolicy = "undefined" THEN existing.dropPolicy
                       ELSE settings.dropPolicy,
        !.send = send]

\* Faulty variant: a key without an entry gets the stale object back, merged
\* with the settings of the call.
GetAnnounceQueue_Revive(w, settings, send) ==
    [w EXCEPT !.queue = Merged(w.queue, settings, send), !.reg = TRUE]

\* getAnnounceQueue on the world w = [queue, reg, loops, elapsed, restarts].
GetAnnounceQueue(w, settings, send) ==
    IF w.reg
    THEN [w EXCEPT !.queue = Merged(w.queue, settings, send)]
    ELSE [w EXCEPT !.queue = Created(settings, send), !.reg = TRUE]

\* -------------------------------------------------------------- drain loop
\* The placeholder for `queue` while the key has no entry.
NoQueue ==
    [items |-> <<>>, draining |-> FALSE, mode |-> "individual", debounceMs |-> 0,
     cap |-> 0, dropPolicy |-> "summarize", droppedCount |-> 0, summaryLines |-> <<>>,
     send |-> 0]

RemoveAt(s, i) == [j \in 1..(Len(s) - 1) |-> IF j < i THEN s[j] ELSE s[j + 1]]

Backlog(q) == Len(q.items) > 0 \/ q.droppedCount > 0

\* waitForQueueDebounce up to the await: the debounce captured for the whole
\* wait, and whether the promise is already resolved when the closure
\* suspends on it.
WaitForQueueDebounce(q, since) ==
    LET debounceMs == Max(0, q.debounceMs)
    IN  [debounceMs |-> debounceMs,
         resolved |-> debounceMs <= 0 \/ since >= debounceMs]

\* Faulty variant: the draining flag is not consulted.
ScheduleReturnsEarly_NoFlag(w) == ~w.reg

\* scheduleAnnounceDrain returns at once when there is no entry or the entry
\* is draining.
ScheduleReturnsEarly(w) == ~w.reg \/ w.queue.draining

\* ANNOUNCE_QUEUES.delete(key).  The deleting closure is the last holder of
\* the object and returns at once: what the object still holds is kept, its
\* configuration is never read again.
Deleted(q) ==
    [NoQueue EXCEPT !.items = q.items, !.droppedCount = q.droppedCount,
                    !.summaryLines = q.summaryLines]

\* Faulty variant: pending drops do not keep the entry.
FinallyDeletes_ItemsOnly(q) == Len(q.items) = 0

\* The finally block deletes the entry when nothing is pending.
FinallyDeletes(q) == Len(q.items) = 0 /\ q.droppedCount = 0

RECURSIVE ScheduleAnnounceDrain(_)

\* Faulty variant: the finally block does not re-schedule the drain.
Finally_NoReschedule(w, i) ==
    LET w1 == [w EXCEPT !.queue.draining = FALSE, !.loops = RemoveAt(w.loops, i)]
    IN  IF FinallyDeletes(w1.queue)
        THEN [w1 EXCEPT !.reg = FALSE, !.queue = Deleted(w1.queue), !.elapsed = 0]
        ELSE w1

\* The finally block of closure i.
Finally(w, i) ==
    LET w1 == [w EXCEPT !.queue.draining = FALSE, !.loops = RemoveAt(w.loops, i)]
    IN  IF FinallyDeletes(w1.queue)
        THEN [w1 EXCEPT !.reg = FALSE, !.queue = Deleted(w1.queue), !.elapsed = 0]
        ELSE ScheduleAnnounceDrain([w1 EXCEPT !.restarts = 1 - w.restarts])

\* Closure i evaluates the while condition and either suspends in the
\* debounce wait or leaves the loop.
LoopHead(w, i) ==
    IF Backlog(w.queue)
    THEN LET wait == WaitForQueueDebounce(w.queue, w.elapsed)
         IN  [w EXCEPT !.loops[i].pc = "wait",
                       !.loops[i].debounceMs = wait.debounceMs,
                       !.loops[i].resolved = wait.resolved]
    ELSE Finally(w, i)

ScheduleAnnounceDrain(w) ==
    IF ScheduleReturnsEarly(w) THEN w
    ELSE LoopHead([w EXCEPT !.queue.draining = TRUE,
                            !.loops = Append(w.loops,
                                [pc |-> "run", forceIndividualCollect |-> FALSE,
                                 debounceMs |-> 0, resolved |-> FALSE])],
                  Len(w.loops) + 1)

\* One pass of the loop body after the debounce wait, up to the next await
\* (send = TRUE, msg is the argument of queue.send) or to a break
\* (send = FALSE).  popped are the items removed from the queue for it.
\* Faulty variant: the head item is read but left in the queue.
Shift_Keep(q) == q

Shift(q) == [q EXCEPT !.items = Tail(q.items)]

DrainBody(q, force) ==
    IF q.mode = "collect"
    THEN IF force
         THEN IF Len(q.items) = 0
              THEN [send |-> FALSE, msg |-> <<>>, popped |-> <<>>, queue |-> q,
                    force |-> force, cross |-> FALSE]
              ELSE [send |-> TRUE, msg |-> <<Head(q.items)>>, popped |-> <<Head(q.items)>>,
                    queue |-> Shift(q), force |-> force, cross |-> FALSE]
         ELSE IF HasCrossChannelItems(q.items)
              THEN [send |-> TRUE, msg |-> <<Head(q.items)>>, popped |-> <<Head(q.items)>>,
                    queue |-> Shift(q), force |-> TRUE, cross |-> TRUE]
              ELSE LET items == q.items
                       s == BuildSummaryPrompt([q EXCEPT !.items = <<>>])
                       prompt == BuildCollectPrompt(items, s.prompt)
                   IN  IF Len(items) = 0
                       THEN [send |-> FALSE, msg |-> <<>>, popped |-> <<>>,
                             queue |-> s.queue, force |-> force, cross |-> FALSE]
                       ELSE [send |-> TRUE,
                             msg |-> <<[items[Len(items)] EXCEPT !.prompt = prompt]>>,
                             popped |-> items, queue |-> s.queue,
                             force |-> force, cross |-> FALSE]
    ELSE LET s == BuildSummaryPrompt(q)
         IN  IF Len(q.items) = 0
             THEN [send |-> FALSE, msg |-> <<>>, popped |-> <<>>, queue |-> s.queue,
                   force |-> force, cross |-> FALSE]
             ELSE IF s.prompt.type = "summary"
                  THEN [send |-> TRUE,
                        msg |-> <<[Head(q.items) EXCEPT !.prompt = s.prompt]>>,
                        popped |-> <<Head(q.items)>>, queue |-> Shift(s.queue),
                        force |-> force, cross |-> FALSE]
                  ELSE [send |-> TRUE, msg |-> <<Head(q.items)>>,
                        popped |-> <<Head(q.items)>>, queue |-> Shift(s.queue),
                        force |-> force, cross |-> FALSE]

\* ----------------------------------------------------------------- enqueue
LastN(s, n) == IF Len(s) <= n THEN s ELSE SubSeq(s, Len(s) - n + 1, Len(s))

\* Lines 219-234: the overflow branch.  rejected = TRUE is the reject-new
\* return.
Overflow(q) ==
    IF q.cap > 0 /\ Len(q.items) >= q.cap
    THEN IF q.dropPolicy = "new"
         THEN [rejected |-> TRUE, queue |-> q, evicted |-> 0]
         ELSE LET dropCount == Len(q.items) - q.cap + 1
                  dropped == SubSeq(q.items, 1, dropCount)
                  q1 == [q EXCEPT !.items = SubSeq(q.items, dropCount + 1, Len(q.items))]
              IN  IF q.dropPolicy = "summarize"
                  THEN [rejected |-> FALSE, evicted |-> dropCount,
                        queue |-> [q1 EXCEPT
                            !.droppedCount = q.droppedCount + dropCount,
                            !.summaryLines =
                                LastN(q.summaryLines \o
                                      [i \in 1..dropCount |-> BuildQueueSummaryLine(dropped[i])],
                                      q.cap)]]
                  ELSE [rejected |-> FALSE, queue |-> q1, evicted |-> dropCount]
    ELSE [rejected |-> FALSE, queue |-> q, evicted |-> 0]

\* enqueueAnnounce as a function of the world: the world after the call and
\* the value returned.
EnqueueAnnounce(w, item, settings, send) ==
    LET w1 == GetAnnounceQueue(w, settings, send)
        w2 == [w1 EXCEPT !.elapsed = 0]
        o == Overflow(w2.queue)
    IN  IF o.rejected
        THEN [world |-> ScheduleAnnounceDrain(w2), ret |-> FALSE, evicted |-> 0]
        ELSE [world |-> ScheduleAnnounceDrain(
                            [w2 EXCEPT !.queue = [o.queue EXCEPT
                                                    !.items = Append(o.queue.items, item)]]),
              ret |-> TRUE, evicted |-> o.evicted]

World ==
    [queue |-> queue, reg |-> registered, loops |-> loops, elapsed |-> elapsed,
     restarts |-> restarts]

\* The send callback supplied by the n-th enqueueAnnounce call.
SendOf(n) == n

\* No queue.send call has been made yet.
NoSend ==
    [msg |-> [prompt |-> NoPrompt, sessionKey |-> 0, origin |-> FALSE, originKey |-> ""],
     via |-> 0, popped |-> <<>>, droppedBefore |-> 0,
     afterSplit |-> FALSE, elapsed |-> 0]

Item(id, org) ==
    [prompt |-> Body(id), sessionKey |-> id, origin |-> org.origin, originKey |-> org.originKey]

\* The highest sessionKey among items and n.
Newest(items, n) ==
    LET ids == {items[i].sessionKey : i \in 1..Len(items)} \cup {n}
    IN  CHOOSE m \in ids : \A k \in ids : k <= m

\* ----------------------------------------------------------------- actions
Init ==
    /\ registered = FALSE
    /\ queue = NoQueue
    /\ elapsed = 0
    /\ loops = <<>>
    /\ sends = 0
    /\ last = NoSend
    /\ ret = TRUE
    /\ enqCount = 0
    /\ debounceFixed = TRUE
    /\ split = FALSE
    /\ uniform = FALSE
    /\ lifeStart = 0
    /\ restarts = 0
    /\ gone = 0
    /\ lastMode = "individual"
    /\ createdWith = <<>>
    /\ failed = FALSE

\* A caller runs enqueueAnnounce({key, item, settings, send}) with settings
\* drawn from choices.
EnqueueWith(choices) ==
    /\ enqCount < MaxEnq
    /\ \E org \in OriginInputs, settings \in choices :
         LET r == EnqueueAnnounce(World, Item(enqCount + 1, org), settings, SendOf(enqCount + 1))
             fresh == ~registered
             \* the call is one of the single-channel collect case: collect
             \* mode, key k1, accepted with nothing evicted, and made before
             \* the first queue.send call
             plain == /\ settings.mode = "collect"
                      /\ org.originKey = "k1"
                      /\ r.ret
                      /\ r.evicted = 0
         IN  /\ registered' = r.world.reg
             /\ queue' = r.world.queue
             /\ elapsed' = r.world.elapsed
             /\ loops' = r.world.loops
             /\ restarts' = r.world.restarts
             /\ ret' = r.ret
             /\ enqCount' = enqCount + 1
             /\ debounceFixed' = IF fresh THEN TRUE
                                 ELSE debounceFixed /\ r.world.queue.debounceMs = queue.debounceMs
             /\ split' = IF fresh THEN FALSE ELSE split
             /\ lifeStart' = IF fresh THEN enqCount ELSE lifeStart
             /\ sends' = IF fresh THEN 0 ELSE sends
             /\ uniform' = IF fresh THEN plain ELSE uniform /\ plain /\ sends = 0
             /\ gone' = Newest(SubSeq(queue.items, 1, r.evicted), gone)
             /\ lastMode' = settings.mode
             /\ createdWith' = IF fresh THEN <<settings>> ELSE <<>>
             /\ failed' = IF fresh THEN FALSE ELSE failed
             /\ UNCHANGED last

Enqueue == EnqueueWith(SettingsInputs)

EnqueueRetimed == EnqueueWith(RetimedSettingsInputs)

EnqueueEvicting == EnqueueWith(EvictingSettingsInputs)

\* Time passes.
Tick ==
    /\ registered
    /\ \E t \in TimePoints : t > elapsed /\ elapsed' = t
    /\ createdWith' = <<>>
    /\ UNCHANGED <<registered, queue, loops, sends, last, ret, enqCount,
                   debounceFixed, split, uniform, lifeStart, restarts, gone,
                   lastMode, failed>>

\* Closure i resumes from the debounce wait and runs to the send or to the
\* end of the closure.
DrainResume(i) ==
    /\ loops[i].pc = "wait"
    /\ loops[i].resolved \/ elapsed >= loops[i].debounceMs
    /\ LET b == DrainBody(queue, loops[i].forceIndividualCollect)
           w1 == [World EXCEPT !.queue = b.queue,
                               !.loops[i].forceIndividualCollect = b.force]
           w2 == IF b.send THEN [w1 EXCEPT !.loops[i].pc = "send"] ELSE Finally(w1, i)
       IN  /\ registered' = w2.reg
           /\ queue' = w2.queue
           /\ loops' = w2.loops
           /\ restarts' = w2.restarts
           /\ last' = IF b.send
                      THEN [msg |-> b.msg[1],
                            via |-> queue.send,
                            popped |-> b.popped,
                            droppedBefore |-> queue.droppedCount,
                            afterSplit |-> split,
                            elapsed |-> elapsed]
                      ELSE last
           /\ sends' = IF b.send THEN sends + 1 ELSE sends
           /\ split' = (split \/ b.cross)
           /\ gone' = Newest(b.popped, gone)
           /\ createdWith' = <<>>
           /\ failed' = IF b.send THEN FALSE ELSE failed
           /\ UNCHANGED <<elapsed, ret, enqCount, debounceFixed, uniform, lifeStart,
                          lastMode>>

\* The promise returned by queue.send fulfils: closure i goes round the loop.
SendOk(i) ==
    /\ loops[i].pc = "send"
    /\ LET w == LoopHead(World, i)
       IN  /\ registered' = w.reg
           /\ queue' = w.queue
           /\ loops' = w.loops
           /\ restarts' = w.restarts
    /\ last' = NoSend
    /\ createdWith' = <<>>
    /\ UNCHANGED <<elapsed, sends, ret, enqCount, debounceFixed, split,
                   uniform, lifeStart, gone, lastMode, failed>>

\* The promise returned by queue.send rejects: catch, then finally.
SendFail(i) ==
    /\ loops[i].pc = "send"
    /\ LET w == Finally(World, i)
       IN  /\ registered' = w.reg
           /\ queue' = w.queue
           /\ loops' = w.loops
           /\ restarts' = w.restarts
    /\ last' = NoSend
    /\ createdWith' = <<>>
    /\ failed' = TRUE
    /\ UNCHANGED <<elapsed, sends, ret, enqCount, debounceFixed, split,
                   uniform, lifeStart, gone, lastMode>>

Next ==
    \/ Enqueue
    \/ Tick
    \/ \E i \in DOMAIN loops : DrainResume(i)
    \/ \E i \in DOMAIN loops : SendOk(i)
    \/ \E i \in DOMAIN loops : SendFail(i)

Spec == Init /\ [][Next]_vars

\* The same program driven by the callers of RetimedSettingsInputs.
NextRetimed ==
    \/ EnqueueRetimed
    \/ Tick
    \/ \E i \in DOMAIN loops : DrainResume(i)
    \/ \E i \in DOMAIN loops : SendOk(i)
    \/ \E i \in DOMAIN loops : SendFail(i)

SpecRetimed == Init /\ [][NextRetimed]_vars

\* Timers fire, a resolved await resumes, and every queue.send call settles.
FairSpec ==
    /\ Spec
    /\ WF_vars(Tick)
    /\ WF_vars(\E i \in DOMAIN loops : DrainResume(i))
    /\ WF_vars(\E i \in DOMAIN loops : SendOk(i) \/ SendFail(i))


\* The callers of EvictingSettingsInputs, with the same fairness.
NextEvicting ==
    \/ EnqueueEvicting
    \/ Tick
    \/ \E i \in DOMAIN loops : DrainResume(i)
    \/ \E i \in DOMAIN loops : SendOk(i)
    \/ \E i \in DOMAIN loops : SendFail(i)

FairSpecEvicting ==
    /\ Init /\ [][NextEvicting]_vars
    /\ WF_vars(Tick)
    /\ WF_vars(\E i \in DOMAIN loops : DrainResume(i))
    /\ WF_vars(\E i \in DOMAIN loops : SendOk(i) \/ SendFail(i))

\* ------------------------------------------------------------------ claims
Sending == {i \in DOMAIN loops : loops[i].pc = "send"}
InFlight == last # NoSend

\* C1: at most one drain closure is alive for the key and at most one
\* queue.send call is in flight, in every state; the draining flag is set
\* exactly while a closure is alive, so a scheduleAnnounceDrain call made
\* while it is set starts nothing.
C1_SingleDrain ==
    /\ Len(loops) <= 1
    /\ Cardinality(Sending) <= 1
    /\ queue.draining <=> Len(loops) = 1

\* An enqueueAnnounce call has run while the send of the only closure was in
\* flight and has left an item behind.
C1_Witness ==
    /\ Len(loops) = 1
    /\ loops[1].pc = "send"
    /\ InFlight
    /\ queue.send > last.via
    /\ Len(queue.items) > 0

\* C2: once the enqueueAnnounce calls have stopped and every send settles,
\* the entry is removed from the registry for good (with nothing pending
\* and the draining flag false).
C2_DrainsToRemoval == <>[](~registered /\ ~queue.draining /\ Len(queue.items) = 0
                            /\ queue.droppedCount = 0)

\* C3: a queue.send call that begins while droppedCount = N > 0 carries the
\* overflow summary for N, and droppedCount returns to 0 only in a step
\* that passes such a message to send.
C3_SummarySent ==
    /\ [](InFlight /\ last.droppedBefore > 0
            => last.msg.prompt.dropped = last.droppedBefore)
    /\ [][queue.droppedCount > 0 /\ queue'.droppedCount = 0
            => /\ sends' = sends + 1
               /\ last'.msg.prompt.dropped = queue.droppedCount]_vars

\* C4: every queue.send call that begins after the drain loop of the entry
\* has taken the cross-channel branch carries exactly one item.
C4_StaysSplit == InFlight /\ last.afterSplit => Len(last.popped) = 1

\* C5: the items merged into one collect message are of one delivery
\* surface: all with the same non-empty originKey, or none with an origin.
OneSurface(items) ==
    \/ \A i \in 1..Len(items) : ~items[i].origin
    \/ \A i \in 1..Len(items) :
          /\ items[i].origin
          /\ items[i].originKey # ""
          /\ items[i].originKey = items[1].originKey

\* C5: every collect message in flight merges items of one surface.
C5_BatchOneSurface ==
    InFlight /\ last.msg.prompt.type = "collect" => OneSurface(last.popped)

\* A batch of two or more keyed items is in flight.
C5_Witness ==
    /\ InFlight
    /\ last.msg.prompt.type = "collect"
    /\ Len(last.popped) >= 2
    /\ last.popped[1].origin

\* C6: when every call since the entry was created was a collect-mode call
\* with originKey k1, accepted with nothing evicted and made before the
\* first send, there is exactly one send; it carries the bodies of all n
\* items in enqueue order numbered 1..n with the sessionKey and origin of
\* the last item, and when it has settled the entry is removed.
C6_SingleBatch ==
    uniform /\ sends >= 1 =>
        LET n == enqCount - lifeStart
        IN  /\ sends = 1
            /\ IF InFlight
               THEN /\ registered
                    /\ Sending # {}
                    /\ last.msg.prompt =
                         [type |-> "collect", body |-> 0, dropped |-> 0, lines |-> <<>>,
                          blocks |-> [k \in 1..n |-> [num |-> k, body |-> lifeStart + k]]]
                    /\ last.msg.sessionKey = lifeStart + n
                    /\ last.msg.origin
                    /\ last.msg.originKey = "k1"
               ELSE ~registered /\ loops = <<>>

\* The single batch of three items is in flight.
C6_Witness == uniform /\ sends = 1 /\ InFlight /\ Len(last.popped) = 3

\* C7: under reject-new an enqueueAnnounce call returns false exactly when
\* the backlog holds at least cap items at the call; a rejected call leaves
\* items, droppedCount and summaryLines as they were, stamps lastEnqueuedAt
\* and leaves a drain closure running.
C7_RejectNew ==
    [][enqCount' # enqCount /\ queue'.dropPolicy = "new"
        => /\ ret' = FALSE <=> Len(queue.items) >= queue'.cap
           /\ ret' = FALSE
                => /\ queue'.items = queue.items
                   /\ queue'.droppedCount = queue.droppedCount
                   /\ queue'.summaryLines = queue.summaryLines
                   /\ elapsed' = 0
                   /\ queue'.draining /\ loops' # <<>>]_vars

\* C8: the entry never holds more than cap items.
C8_WithinCap == registered => Len(queue.items) <= queue.cap

\* C9: the key has an entry exactly when its QueueState has pending items,
\* pending drops or a drain in flight.
C9_RegisteredIffBusy ==
    registered <=> (Len(queue.items) > 0 \/ queue.droppedCount > 0 \/ queue.draining)

\* The entry is kept by the in-flight drain alone.
C9_Witness ==
    /\ registered
    /\ Len(queue.items) = 0
    /\ queue.droppedCount = 0
    /\ queue.draining

\* C10: with one debounceMs = D > 0 since the entry was created, a
\* queue.send call begins no earlier than D after the latest
\* enqueueAnnounce call.
C10_Debounced ==
    InFlight /\ debounceFixed /\ queue.debounceMs > 0 => last.elapsed >= queue.debounceMs

\* C11: a rejected queue.send call is handled inside the drain closure.  The
\* step that handles it changes nothing a caller of enqueueAnnounce has
\* seen, leaves items as they were (the popped items are not put back),
\* keeps the entry with a closure waiting again when backlog remains and
\* removes it otherwise; no later send pops an item that has left the queue
\* before; and the backlog left behind by the failure is drained in the end.
C11_FailureContained ==
    [][(\E i \in DOMAIN loops : SendFail(i))
        => /\ ret' = ret /\ enqCount' = enqCount
           /\ queue'.items = queue.items
           /\ \A k \in 1..Len(queue'.items) : queue'.items[k].sessionKey > gone
           /\ IF Backlog(queue)
              THEN registered' /\ queue'.draining /\ Len(loops') = 1
                   /\ loops'[1].pc = "wait"
              ELSE ~registered']_vars

C11_NeverResent ==
    [][sends' = sends + 1
        => \A k \in 1..Len(last'.popped) : last'.popped[k].sessionKey > gone]_vars

C11_BacklogDrained == (failed /\ Backlog(queue)) ~> ~Backlog(queue)

\* C11: a rejected send is contained in the closure, its items are never
\* sent again, and the backlog it leaves behind is drained in the end.
C11_SendFailure == C11_FailureContained /\ C11_NeverResent /\ C11_BacklogDrained

\* C12: a drain step that leaves nothing pending and no send in flight
\* removes the entry; a key without an entry has no item, no pending drop
\* and no closure; and right after the call that creates an object, the
\* object holds exactly that call's item, callback and settings, with 1000,
\* 20 and "summarize" for the omitted ones, no drops, no summary lines, and
\* one closure starting from scratch.
C12_BuiltFrom(s) ==
    /\ registered
    /\ Len(queue.items) = 1 /\ queue.items[1].sessionKey = enqCount
    /\ queue.mode = s.mode
    /\ queue.debounceMs = (IF s.debounceMs.has THEN Max(0, s.debounceMs.val) ELSE 1000)
    /\ queue.cap = (IF s.cap.has THEN s.cap.val ELSE 20)
    /\ queue.dropPolicy = (IF s.dropPolicy = "undefined" THEN "summarize" ELSE s.dropPolicy)
    /\ queue.droppedCount = 0
    /\ queue.summaryLines = <<>>
    /\ queue.send = SendOf(enqCount)
    /\ queue.draining
    /\ loops = <<[pc |-> "wait", forceIndividualCollect |-> FALSE,
                  debounceMs |-> queue.debounceMs, resolved |-> queue.debounceMs = 0]>>
    /\ sends = 0 /\ ~split /\ elapsed = 0

\* C12: removal when nothing is pending, nothing left in a removed object,
\* and a created object built from the creating call alone.
C12_FreshState ==
    /\ [](createdWith # <<>> => C12_BuiltFrom(createdWith[1]))
    /\ [](~registered => Len(queue.items) = 0 /\ queue.droppedCount = 0 /\ loops = <<>>)
    /\ [][enqCount' = enqCount /\ registered /\ ~Backlog(queue')
            /\ (\A i \in DOMAIN loops' : loops'[i].pc # "send")
          => ~registered']_vars

\* The third call has created an object after the one of the first two calls
\* was removed, and omits cap and dropPolicy.
C12_Witness ==
    /\ createdWith # <<>>
    /\ lifeStart = 2
    /\ ~createdWith[1].cap.has
    /\ createdWith[1].dropPolicy = "undefined"

\* C13: the cap stored in the object of a key with an entry is at least 1.
C13_CapAtLeastOne == registered => queue.cap >= 1

\* C14: the object of a key with an entry holds the mode and the callback
\* of the latest enqueueAnnounce call; every queue.send call goes to the
\* callback of the latest call made before it, and the cycle that makes it
\* takes the branch of the mode of that call: one popped item in individual
\* mode, and in collect mode one plain item when the closure is forced or
\* the items are cross-channel, else one batch of all the items.
C14_Branch(i) ==
    IF lastMode = "individual"
    THEN /\ last'.popped = <<Head(queue.items)>>
         /\ last'.msg.prompt.type \in {"body", "summary"}
    ELSE IF loops[i].forceIndividualCollect \/ HasCrossChannelItems(queue.items)
         THEN last'.msg = Head(queue.items)
         ELSE last'.msg.prompt.type = "collect" /\ last'.popped = queue.items

\* C14: mode and callback of the latest call are the ones stored and used.
C14_LatestCall ==
    /\ [](registered => queue.mode = lastMode /\ queue.send = SendOf(enqCount))
    /\ [][sends' = sends + 1
            => /\ last'.via = SendOf(enqCount)
               /\ \A i \in DOMAIN loops :
                     loops[i].pc = "wait" /\ loops'[i].pc = "send" => C14_Branch(i)]_vars

\* The third call was rejected while the closure was suspended, and the send
\* in flight went to its callback.
C14_Witness ==
    /\ InFlight
    /\ lifeStart = 0 /\ enqCount = 3
    /\ ~ret
    /\ last.via = SendOf(3)

\* C15: when debounceMs was changed by an enqueueAnnounce call made during
\* the debounce wait of a closure (the value the wait captured differs from
\* the current one), the send that follows the wait begins no earlier than
\* the current debounceMs after the latest call.
C15_WaitsNewDebounce ==
    [][\A i \in DOMAIN loops :
          /\ loops[i].pc = "wait"
          /\ sends' = sends + 1
          /\ queue.debounceMs # loops[i].debounceMs
          => elapsed >= queue.debounceMs]_vars

\* C16: an enqueueAnnounce call under an evict policy that finds
\* items.length >= cap returns true and leaves the old items without their
\* first items.length - cap + 1, followed by the new item; under
\* "summarize" droppedCount grows by that number and the lines of the
\* evicted items are appended in order (then cut to the last cap lines),
\* under "old" droppedCount and summaryLines stay as they were.
C16_Evicted(n) ==
    /\ ret' = TRUE
    /\ Len(queue'.items) = Len(queue.items) - n + 1
    /\ \A k \in 1..(Len(queue.items) - n) : queue'.items[k] = queue.items[n + k]
    /\ queue'.items[Len(queue'.items)].sessionKey = enqCount'
    /\ IF queue'.dropPolicy = "summarize"
       THEN /\ queue'.droppedCount = queue.droppedCount + n
            /\ queue'.summaryLines =
                  LastN(queue.summaryLines \o
                        [k \in 1..n |-> BuildQueueSummaryLine(queue.items[k])],
                        queue'.cap)
       ELSE /\ queue'.droppedCount = queue.droppedCount
            /\ queue'.summaryLines = queue.summaryLines

\* C16: every evicting call removes items.length - cap + 1 items from the
\* head, as C16_Evicted describes.
C16_EvictOldest ==
    [][enqCount' # enqCount /\ queue'.dropPolicy \in {"old", "summarize"}
        /\ Len(queue.items) >= queue'.cap
        => C16_Evicted(Len(queue.items) - queue'.cap + 1)]_vars

\* C17: a queue.send call made in individual mode pops exactly the head
\* item, which is then in no later state of items.  When buildSummaryPrompt
\* has a summary (policy "summarize", droppedCount > 0) the argument is the
\* head item with its prompt replaced by the summary of droppedCount and
\* summaryLines, and both are reset; otherwise the argument is the head
\* item itself and both stay as they were.
C17_Individual ==
    /\ [](\A k \in 1..Len(queue.items) : queue.items[k].sessionKey > gone)
    /\ [][sends' = sends + 1 /\ queue.mode = "individual"
            => LET head == Head(queue.items)
               IN  /\ last'.popped = <<head>>
                   /\ queue'.items = Tail(queue.items)
                   /\ gone' >= head.sessionKey
                   /\ IF queue.dropPolicy = "summarize" /\ queue.droppedCount > 0
                      THEN /\ last'.msg =
                                [head EXCEPT !.prompt =
                                    [type |-> "summary", body |-> 0,
                                     dropped |-> queue.droppedCount,
                                     lines |-> queue.summaryLines, blocks |-> <<>>]]
                           /\ queue'.droppedCount = 0
                           /\ queue'.summaryLines = <<>>
                      ELSE /\ last'.msg = head
                           /\ queue'.droppedCount = queue.droppedCount
                           /\ queue'.summaryLines = queue.summaryLines]_vars

\* A summary is in flight in the envelope of the popped item, with another
\* item still queued.
C17_Witness ==
    /\ InFlight
    /\ last.msg.prompt.type = "summary"
    /\ last.msg.sessionKey = last.popped[1].sessionKey
    /\ Len(queue.items) > 0

\* C18: the object of a key with an entry never holds more summary lines
\* than its cap.
C18_LinesWithinCap == registered => Len(queue.summaryLines) <= queue.cap

\* C19: the bodies carried by a queue.send call are in enqueue order and
\* all newer than every item that left the queue before the call, by
\* eviction or for an earlier send; the queued items are in enqueue order
\* and newer than all of those too; and every item an enqueueAnnounce call
\* removes is counted among them.  So a body is sent at most once, an
\* evicted body never, and bodies are sent in enqueue order.
BodiesOf(prompt) ==
    IF prompt.type = "body" THEN <<prompt.body>>
    ELSE IF prompt.type = "collect"
         THEN [k \in 1..Len(prompt.blocks) |-> prompt.blocks[k].body]
         ELSE <<>>

\* C19: bodies are sent at most once, in enqueue order, and never after
\* an eviction.
C19_OnceInOrder ==
    /\ [](\A k \in 1..Len(queue.items) :
            /\ queue.items[k].sessionKey > gone
            /\ queue.items[k].prompt = Body(queue.items[k].sessionKey)
            /\ \A j \in 1..(k - 1) : queue.items[j].sessionKey < queue.items[k].sessionKey)
    /\ [][sends' = sends + 1
            => LET b == BodiesOf(last'.msg.prompt)
               IN  \A k \in 1..Len(b) :
                      /\ b[k] > gone
                      /\ b[k] <= gone'
                      /\ \A j \in 1..(k - 1) : b[j] < b[k]]_vars
    /\ [][enqCount' # enqCount
            => \A k \in 1..Len(queue.items) :
                  (\A j \in 1..Len(queue'.items) : queue'.items[j] # queue.items[k])
                     => queue.items[k].sessionKey <= gone']_vars

\* The second send is in flight and carries the second and third items in
\* one batch, after the first item was sent alone.
C19_Witness ==
    /\ InFlight
    /\ sends = 2
    /\ BodiesOf(last.msg.prompt) = <<2, 3>>
    /\ gone = 3

\* C20: whenever the object holds pending items or pending drops, the key
\* has its entry, the draining flag is set and a drain closure is alive.
C20_NeverStranded ==
    Backlog(queue) => registered /\ queue.draining /\ Len(loops) >= 1

\* A send has rejected with items left behind, and the closure started by
\* the finally block is waiting.
C20_Witness ==
    /\ failed
    /\ ~InFlight
    /\ Len(queue.items) > 0
    /\ queue.draining

=============================================================================
